---- MODULE Spec2Model ----
(***************************************************************************)
(* Model of the RBAC middleware (authorize, requirePermission, hasRole,    *)
(* hasPermission) and of the socket layer (handshake authentication,       *)
(* connection registry, heartbeat, notifyRoles) of picode-server.          *)
(*                                                                         *)
(* Strings that the code splits on ':' or builds with a template           *)
(* `${a}:${b}` are modelled by their list of ':'-separated segments, so    *)
(* "careers:create" is <<"careers", "create">>; two such strings are equal *)
(* exactly when their segment lists are equal.                             *)
(***************************************************************************)
EXTENDS Integers, Sequences, FiniteSets, TLC

\* ------------------------------------------------------------------ bounds
\* Sockets that connect during a run.
MaxConns == 2

\* Longest roles array of a request principal, longest list of required
\* roles or permissions handed to a middleware.
MaxRoles == 2

MaxRequired == 2

\* Longest socket list when the registration step is applied on its own.
MaxList == 3

Conns == 1..MaxConns

\* Sockets of the connection-handler specification.
MaxSockets == 3

Socks == 1..MaxSockets

SeqsUpTo(S, n) == UNION {[1..k -> S] : k \in 0..n}

\* ------------------------------------------------------- JavaScript values
\* JS undefined / null (an absent field, an absent document).
Undefined == "<undefined>"

Null == [kind |-> "null"]

\* String(v) as a template literal renders it.
Str(v) == IF v = Undefined THEN "undefined" ELSE v

\* obj.field: the field's value, undefined when the object has no such field.
Get(obj, field) == IF field \in DOMAIN obj THEN obj[field] ELSE Undefined

\* !obj.field for a field that holds an array or is absent.
Missing(obj, field) == field \notin DOMAIN obj

\* typeof v for the values roles[] and permissions[] can hold: a populated
\* document, an unpopulated ObjectId and null are all "object".
TypeOf(v) == IF v.kind \in {"doc", "oid", "null"} THEN "object" ELSE "other"

\* Array.prototype.some visits elements in order and stops at the first hit:
\* the index of the first element satisfying P, 0 when there is none.
FirstHit(seq, P(_)) ==
  IF \E i \in 1..Len(seq) : P(seq[i])
    THEN CHOOSE i \in 1..Len(seq) : P(seq[i]) /\ \A j \in 1..(i - 1) : ~P(seq[j])
    ELSE 0

Some(seq, P(_)) == FirstHit(seq, P) # 0

\* The elements Array.prototype.some actually visited.
Visited(seq, P(_)) ==
  IF FirstHit(seq, P) = 0 THEN seq ELSE SubSeq(seq, 1, FirstHit(seq, P))

Range(seq) == {seq[i] : i \in 1..Len(seq)}

\* ------------------------------------------------- roles and permissions
\* The Role collection: a sample of the seeded roles plus one custom role
\* holding the global all:manage permission.
RoleNames == {"SuperAdmin", "Admin", "HRManager", "Editor", "Auditor"}

Perm(resource, name) == [kind |-> "doc", resource |-> resource, name |-> name]

RolePermissions(r) ==
  CASE r = "SuperAdmin" -> <<Perm("all", "manage"), Perm("blogs", "create")>>
    [] r = "Admin"      -> <<Perm("users", "manage"), Perm("blogs", "create")>>
    [] r = "HRManager"  -> <<Perm("careers", "manage"), Perm("applications", "read")>>
    [] r = "Editor"     -> <<Perm("blogs", "update")>>
    [] r = "Auditor"    -> <<Perm("all", "manage")>>

\* An ObjectId reference left unpopulated.
Oid(id) == [kind |-> "oid", id |-> id]

\* populate({path: 'roles', populate: {path: 'permissions'}}): role documents
\* with permission documents.
RoleDocDeep(r) == [kind |-> "doc", name |-> r, permissions |-> RolePermissions(r)]

\* populate({path: 'roles'}): role documents whose permissions stay ObjectIds.
RoleDocShallow(r) ==
  [kind |-> "doc", name |-> r,
   permissions |-> [i \in 1..Len(RolePermissions(r)) |->
                      Oid(<<RolePermissions(r)[i].resource, RolePermissions(r)[i].name>>)]]

\* A User document with its roles array as loaded.
UserDoc(id, roles) == [kind |-> "doc", _id |-> id, roles |-> roles]

\* UserSchema.methods.hasRole
HasRoleFirstOnly(user, roleName) ==
  IF Missing(user, "roles") \/ Len(user.roles) = 0 THEN FALSE
  ELSE IF TypeOf(user.roles[1]) = "object" /\ user.roles[1] # Null
    THEN Get(user.roles[1], "name") = roleName
    ELSE FALSE

hasRole(user, roleName) ==
  IF Missing(user, "roles") \/ Len(user.roles) = 0 THEN FALSE
  ELSE IF TypeOf(user.roles[1]) = "object" /\ user.roles[1] # Null
    THEN LET IsNamed(role) == Get(role, "name") = roleName
         IN  Some(user.roles, IsNamed)
    ELSE FALSE

\* `${permission.resource}:${permission.name}`
PermissionCode(permission) ==
  <<Str(Get(permission, "resource")), Str(Get(permission, "name"))>>

\* UserSchema.methods.hasPermission
hasPermission(user, permissionCode) ==
  IF Missing(user, "roles") \/ Len(user.roles) = 0 THEN FALSE
  ELSE IF TypeOf(user.roles[1]) = "object" /\ user.roles[1] # Null
    THEN \E i \in 1..Len(user.roles) :
           LET role == user.roles[i]
           IN  /\ ~Missing(role, "permissions")
               /\ \E j \in 1..Len(role.permissions) :
                    LET permission == role.permissions[j]
                    IN  /\ TypeOf(permission) = "object"
                        /\ permission # Null
                        /\ PermissionCode(permission) = permissionCode
    ELSE FALSE

\* ------------------------------------------------ authorization middleware
\* What a middleware passes to next(): nothing, or an ApiError.
Continue == [statusCode |-> 0, message |-> ""]

ApiError(statusCode, message) == [statusCode |-> statusCode, message |-> message]

Unauthenticated == ApiError(401, "User not authenticated")

\* authorize(...roles): the next() calls it makes and the role names it
\* hands to hasRole, in order.
authorizeAnonymousForbidden(user, roles) ==
  IF user = Null
    THEN [nexts |-> <<ApiError(403, "Not authorized to access this route")>>, probes |-> <<>>]
  ELSE IF hasRole(user, "SuperAdmin")
    THEN [nexts |-> <<Continue>>, probes |-> <<"SuperAdmin">>]
  ELSE LET Has(role) == hasRole(user, role)
       IN  IF ~Some(roles, Has)
             THEN [nexts |-> <<ApiError(403, "Not authorized to access this route")>>,
                   probes |-> <<"SuperAdmin">> \o Visited(roles, Has)]
             ELSE [nexts |-> <<Continue>>,
                   probes |-> <<"SuperAdmin">> \o Visited(roles, Has)]

authorize(user, roles) ==
  IF user = Null
    THEN [nexts |-> <<Unauthenticated>>, probes |-> <<>>]
  ELSE IF hasRole(user, "SuperAdmin")
    THEN [nexts |-> <<Continue>>, probes |-> <<"SuperAdmin">>]
  ELSE LET Has(role) == hasRole(user, role)
       IN  IF ~Some(roles, Has)
             THEN [nexts |-> <<ApiError(403, "Not authorized to access this route")>>,
                   probes |-> <<"SuperAdmin">> \o Visited(roles, Has)]
             ELSE [nexts |-> <<Continue>>,
                   probes |-> <<"SuperAdmin">> \o Visited(roles, Has)]

\* const [resource] = permission.split(':')
ResourceOf(permission) == permission[1]

\* requirePermission(...permissions): the next() calls it makes and the
\* role names it hands to hasRole.
requirePermissionNoAll(user, permissions) ==
  IF user = Null
    THEN [nexts |-> <<Unauthenticated>>, probes |-> <<>>]
  ELSE IF hasRole(user, "SuperAdmin")
    THEN [nexts |-> <<Continue>>, probes |-> <<"SuperAdmin">>]
  ELSE LET Direct(p) == hasPermission(user, p)
           Manage(p) == hasPermission(user, <<ResourceOf(p), "manage">>)
       IN  IF Some(permissions, Direct) \/ Some(permissions, Manage)
             THEN [nexts |-> <<Continue>>, probes |-> <<"SuperAdmin">>]
             ELSE [nexts |-> <<ApiError(403, "You do not have permission to perform this action")>>,
                   probes |-> <<"SuperAdmin">>]

requirePermission(user, permissions) ==
  IF user = Null
    THEN [nexts |-> <<Unauthenticated>>, probes |-> <<>>]
  ELSE IF hasRole(user, "SuperAdmin")
    THEN [nexts |-> <<Continue>>, probes |-> <<"SuperAdmin">>]
  ELSE LET Direct(p) == hasPermission(user, p)
           Manage(p) == \/ hasPermission(user, <<ResourceOf(p), "manage">>)
                        \/ hasPermission(user, <<"all", "manage">>)
       IN  IF Some(permissions, Direct)
             THEN [nexts |-> <<Continue>>, probes |-> <<"SuperAdmin">>]
           ELSE IF Some(permissions, Manage)
             THEN [nexts |-> <<Continue>>, probes |-> <<"SuperAdmin">>]
           ELSE [nexts |-> <<ApiError(403, "You do not have permission to perform this action")>>,
                 probes |-> <<"SuperAdmin">>]

\* ------------------------------------------------------------- user store
\* The users of the User collection; GhostUser is an id no record has.
Users == {"u1", "u2"}

GhostUser == "u9"

\* The user ids and role-id arrays a setUserRoles request may carry (the
\* last three arrays are rejected: empty, an unknown role id, a repeated id).
SetRolesTargets == {"u1", GhostUser}

RoleListInputs ==
  {<<"Editor">>, <<"SuperAdmin", "Admin">>, <<>>, <<"NoSuchRole">>, <<"Admin", "Admin">>}

\* Role.find({_id: {$in: roles}}).distinct('_id')
ValidRoles(roles) == Range(roles) \cap RoleNames

\* ------------------------------------------------------------------ tokens
\* socket.handshake.auth.token: absent, or a JWT described by what
\* jwt.verify finds: its signature, its expiry and its userId claim.
NoToken == [kind |-> "absent"]

Jwt(sig, expired, userId) ==
  [kind |-> "jwt", sig |-> sig, expired |-> expired, userId |-> userId]

Tokens ==
  {NoToken,
   Jwt("bad", FALSE, "u1"),
   Jwt("ok", TRUE, "u1"),
   Jwt("ok", FALSE, Undefined),
   Jwt("ok", FALSE, "u1"),
   Jwt("ok", FALSE, "u2"),
   Jwt("ok", FALSE, GhostUser)}

\* jwt.verify(token, secret): the payload, or the error it throws.
JwtVerify(token) ==
  IF token.sig # "ok" THEN [threw |-> TRUE, message |-> "invalid signature"]
  ELSE IF token.expired THEN [threw |-> TRUE, message |-> "jwt expired"]
  ELSE [threw |-> FALSE, userId |-> token.userId]

\* verifyAccessToken (JWT_ACCESS_SECRET is set): rethrows the verification
\* error with its message, otherwise returns the decoded payload.
verifyAccessTokenNoExpiry(token) ==
  IF token.sig # "ok" THEN [threw |-> TRUE, message |-> "invalid signature"]
  ELSE [threw |-> FALSE, userId |-> token.userId]

verifyAccessToken(token) ==
  IF JwtVerify(token).threw
    THEN [threw |-> TRUE,
          message |-> IF JwtVerify(token).message # "" THEN JwtVerify(token).message
                      ELSE "Invalid access token"]
    ELSE JwtVerify(token)

\* ------------------------------------------------- handshake middleware
\* next() and next(new Error(message)) of the socket middleware.
Accept == "next()"

Reject(message) == "Authentication error: " \o message

\* io.use middleware up to the awaited User.findById: the next() calls made
\* so far, and the userId being looked up when it suspends.
HandshakeSyncLenient(token) ==
  IF token = NoToken
    THEN [nexts |-> <<Reject("Token not provided")>>, awaiting |-> FALSE]
  ELSE IF verifyAccessToken(token).threw
    THEN [nexts |-> <<Reject(verifyAccessToken(token).message)>>, awaiting |-> FALSE]
  ELSE IF verifyAccessToken(token).userId = Undefined
    THEN [nexts |-> <<Reject("User not found")>>, awaiting |-> FALSE]
  ELSE [nexts |-> <<>>, awaiting |-> TRUE, userId |-> verifyAccessToken(token).userId]

HandshakeSync(token) ==
  IF token = NoToken
    THEN [nexts |-> <<Reject("Token not provided")>>, awaiting |-> FALSE]
  ELSE IF verifyAccessToken(token).threw
    THEN [nexts |-> <<Reject(verifyAccessToken(token).message)>>, awaiting |-> FALSE]
  ELSE IF verifyAccessToken(token).userId = Undefined
    THEN [nexts |-> <<Reject("Invalid token")>>, awaiting |-> FALSE]
  ELSE [nexts |-> <<>>, awaiting |-> TRUE, userId |-> verifyAccessToken(token).userId]

\* User.findById(userId).populate({path: "roles"}) against the stored roles.
FindUserWithRoles(db, userId) ==
  IF userId \in DOMAIN db
    THEN UserDoc(userId, [i \in 1..Len(db[userId]) |-> RoleDocShallow(db[userId][i])])
    ELSE Null

\* ------------------------------------------------------ activeConnections
\* The Map<string, AuthenticatedSocket[]> as its entries in insertion order.
MapHas(m, k) == \E i \in 1..Len(m) : m[i].key = k

MapGet(m, k) == m[CHOOSE i \in 1..Len(m) : m[i].key = k].value

MapSet(m, k, v) ==
  IF MapHas(m, k)
    THEN [i \in 1..Len(m) |-> IF m[i].key = k THEN [key |-> k, value |-> v] ELSE m[i]]
    ELSE Append(m, [key |-> k, value |-> v])

MapDelete(m, k) == SelectSeq(m, LAMBDA e : e.key # k)

\* Lines 90-98: create the user's list if absent, then push the socket.
RegisterSocketFront(m, userId, c) ==
  LET m1 == IF ~MapHas(m, userId) THEN MapSet(m, userId, <<>>) ELSE m
  IN  MapSet(m1, userId, <<c>> \o MapGet(m1, userId))

RegisterSocket(m, userId, c) ==
  LET m1 == IF ~MapHas(m, userId) THEN MapSet(m, userId, <<>>) ELSE m
  IN  MapSet(m1, userId, Append(MapGet(m1, userId), c))

\* Lines 118-128: filter the socket out, store the rest or delete the key.
RemoveSocketKeepKey(m, userId, c) ==
  LET userSockets == IF MapHas(m, userId) THEN MapGet(m, userId) ELSE <<>>
      updatedSockets == SelectSeq(userSockets, LAMBDA s : s # c)
  IN  MapSet(m, userId, updatedSockets)

RemoveSocket(m, userId, c) ==
  LET userSockets == IF MapHas(m, userId) THEN MapGet(m, userId) ELSE <<>>
      updatedSockets == SelectSeq(userSockets, LAMBDA s : s # c)
  IN  IF Len(updatedSockets) > 0
        THEN MapSet(m, userId, updatedSockets)
        ELSE MapDelete(m, userId)

\* -------------------------------------------------------------- notifyRoles
\* The role test of notifyRoles on one socket's attached user.
SocketHasRole(user, roles) ==
  LET Matches(role) ==
        /\ user # Null
        /\ ~Missing(user, "roles")
        /\ \E i \in 1..Len(user.roles) : Get(user.roles[i], "name") = role
  IN  Some(roles, Matches)

\* sockets.forEach(s => s.emit(event, data)): the sockets emit was called
\* on, stopping at the first one whose emit throws.
EmitAll(sockets, failing) ==
  LET Throws(s) == s = failing
  IN  [attempted |-> Visited(sockets, Throws), threw |-> Some(sockets, Throws)]

\* The loop over activeConnections.entries(): `users` is socket.user of each
\* socket, `failing` the socket whose emit throws (0: none does). `examined`
\* are the keys the loop got to, `matched` those whose first socket passed
\* the role test.
RECURSIVE NotifyScan(_, _, _, _)
NotifyScan(entries, users, roles, failing) ==
  IF entries = <<>>
    THEN [attempted |-> <<>>, threw |-> FALSE, examined |-> <<>>, matched |-> <<>>]
  ELSE LET userId == Head(entries).key
           sockets == Head(entries).value
           matched == /\ Len(sockets) > 0
                      /\ users[sockets[1]] # Null
                      /\ SocketHasRole(users[sockets[1]], roles)
           sent == IF matched THEN EmitAll(sockets, failing)
                   ELSE [attempted |-> <<>>, threw |-> FALSE]
           hit == IF matched THEN <<userId>> ELSE <<>>
           rest == NotifyScan(Tail(entries), users, roles, failing)
       IN  IF sent.threw
             THEN [attempted |-> sent.attempted, threw |-> TRUE,
                   examined |-> <<userId>>, matched |-> hit]
             ELSE [attempted |-> sent.attempted \o rest.attempted, threw |-> rest.threw,
                   examined |-> <<userId>> \o rest.examined,
                   matched |-> hit \o rest.matched]

\* Role lists passed to notifyRoles.
NotifyRoleLists == {<<"SuperAdmin", "Admin">>, <<"Editor">>}

\* ------------------------------------------------------------------- state
VARIABLES
  userRoles,          \* User collection: user id -> roles array (role ids)
  userActive,         \* User collection: user id -> isActive
  token,              \* socket.handshake.auth.token of each socket
  lookup,             \* decoded.userId of a middleware suspended at findById
  nextCalls,          \* the next(...) calls the socket middleware has made
  sockUser,           \* socket.user
  phase,              \* where each socket is in its life
  activeConnections,  \* the registry Map
  pingInterval,       \* whether the socket's setInterval timer is active
  registered,         \* history: the sockets in the order the handler registered them
  obs,                \* what the operation that just ran emitted or returned
  req,                \* the HTTP request a route middleware is applied to
  res,                \* the outcome of that middleware
  roleDocs,           \* the Role collection
  permissionDocs,     \* the Permission collection
  calls,              \* the controller requests in progress
  careerDocs,         \* Career collection: career id -> status, applicationsCount
  applicationDocs     \* Application collection

vars == <<userRoles, userActive, token, lookup, nextCalls, sockUser, phase,
          activeConnections, pingInterval, registered, obs, req, res,
          roleDocs, permissionDocs, calls, careerDocs, applicationDocs>>

appVars == <<careerDocs, applicationDocs>>

ctrlVars == <<roleDocs, permissionDocs, calls, appVars>>

sockVars == <<userRoles, userActive, token, lookup, nextCalls, sockUser, phase,
              activeConnections, pingInterval, registered, obs>>

NoObs == [op |-> "none"]

NoReq == [mw |-> "none"]

NoRes == [nexts |-> <<>>, probes |-> <<>>]

\* ------------------------------------------------------------ HTTP requests
\* req.user as protect loads it (roles and permissions populated), as the
\* socket middleware loads it (roles only), with unpopulated roles, or absent.
PrincipalRoleLists ==
  {r \in SeqsUpTo(RoleNames, MaxRoles) : \A i, j \in 1..Len(r) : r[i] = r[j] => i = j}

Principals ==
  {Null}
    \cup {UserDoc("u1", [i \in 1..Len(r) |-> RoleDocDeep(r[i])]) : r \in PrincipalRoleLists}
    \cup {UserDoc("u1", [i \in 1..Len(r) |-> RoleDocShallow(r[i])]) : r \in PrincipalRoleLists}
    \cup {UserDoc("u1", [i \in 1..Len(r) |-> Oid(r[i])]) : r \in PrincipalRoleLists}

\* Permission codes and role names the routes pass to the middlewares.
PermissionCodes ==
  {<<"careers", "create">>, <<"careers", "manage">>, <<"blogs", "update">>,
   <<"all", "manage">>}

RequiredRoleNames == {"SuperAdmin", "Admin", "Editor"}

Requests ==
  {[mw |-> "authorize", user |-> p, required |-> r] :
     p \in Principals, r \in SeqsUpTo(RequiredRoleNames, MaxRequired)}
    \cup {[mw |-> "requirePermission", user |-> p, required |-> r] :
     p \in Principals, r \in SeqsUpTo(PermissionCodes, MaxRequired)}

\* Every seeded user is active (seed.ts line 447).
AllActive == [u \in Users |-> TRUE]

\* The stored roles at start: user A is an Editor, user B a SuperAdmin.
InitialRoles == [u \in Users |-> IF u = "u1" THEN <<"Editor">> ELSE <<"SuperAdmin", "Admin">>]

\* ---------------------------------------- Role and Permission collections
\* Controller requests in progress at one time.
MaxCalls == 2

Calls == 1..MaxCalls

\* Permission ids of a stored role: a sample of what seed.ts gives it.
RolePermissionIds(r) ==
  IF r \in RoleNames
    THEN [i \in 1..Len(RolePermissions(r)) |->
            <<RolePermissions(r)[i].resource, RolePermissions(r)[i].name>>]
  ELSE IF r = "Viewer" THEN << <<"blogs", "read">>, <<"applications", "read">> >>
  ELSE << <<"blogs", "read">> >>

\* A Role document and the Role collection after seeding; the seeded role
\* User is the default role. A seeded role's _id is written as its name.
RoleDoc(id, name, isDefault, permissions) ==
  [_id |-> id, name |-> name, isDefault |-> isDefault, permissions |-> permissions]

SeedRoleDocs ==
  {RoleDoc(r, r, r = "User", RolePermissionIds(r)) : r \in RoleNames \cup {"Viewer", "User"}}

\* A Permission document and the Permission collection after seeding; a
\* seeded permission's _id is written as its resource and name.
PermissionDoc(id, resource, name) == [_id |-> id, resource |-> resource, name |-> name]

SeedPermissionDocs ==
  {PermissionDoc(p, p[1], p[2]) :
     p \in UNION {Range(RolePermissionIds(r)) : r \in RoleNames \cup {"Viewer", "User"}}}

\* The _id Mongo gives the document that request r inserts.
NewRoleId(r) == "role" \o ToString(r)

NewPermissionId(r) == <<"permission", ToString(r)>>

\* Two careers as createCareer and updateCareer leave them: one published,
\* one still a draft, neither with an application.
SeedCareerDocs ==
  [c \in {"c1", "c2"} |->
     [status |-> IF c = "c1" THEN "published" ELSE "draft", applicationsCount |-> 0]]

NewApplicationId(r) == "application" \o ToString(r)

\* A request slot with no request, and a request that has been answered.
Idle == [pc |-> "idle"]

Done(op, statusCode, message) ==
  [pc |-> "done", op |-> op, statusCode |-> statusCode, message |-> message]

CtrlInit ==
  /\ roleDocs = SeedRoleDocs
  /\ permissionDocs = SeedPermissionDocs
  /\ calls = [r \in Calls |-> Idle]
  /\ careerDocs = SeedCareerDocs
  /\ applicationDocs = {}

SocketInit ==
  /\ userRoles = InitialRoles
  /\ userActive = AllActive
  /\ token = [c \in Conns |-> NoToken]
  /\ lookup = [c \in Conns |-> Undefined]
  /\ nextCalls = [c \in Conns |-> <<>>]
  /\ sockUser = [c \in Conns |-> Null]
  /\ phase = [c \in Conns |-> "new"]
  /\ activeConnections = <<>>
  /\ pingInterval = [c \in Conns |-> FALSE]
  /\ registered = <<>>
  /\ obs = NoObs
  /\ CtrlInit

Init ==
  /\ SocketInit
  /\ req = NoReq
  /\ res = NoRes

\* ------------------------------------------------------------ socket layer
\* io.use middleware, lines 29-52: runs until it rejects or suspends at the
\* awaited User.findById.
HandshakeStart(c, t) ==
  /\ phase[c] = "new"
  /\ token' = [token EXCEPT ![c] = t]
  /\ nextCalls' = [nextCalls EXCEPT ![c] = HandshakeSync(t).nexts]
  /\ IF HandshakeSync(t).awaiting
       THEN /\ phase' = [phase EXCEPT ![c] = "findById"]
            /\ lookup' = [lookup EXCEPT ![c] = HandshakeSync(t).userId]
       ELSE /\ phase' = [phase EXCEPT ![c] = "decided"]
            /\ UNCHANGED lookup
  /\ obs' = NoObs
  /\ UNCHANGED <<userActive, userRoles, sockUser, activeConnections, pingInterval, registered, req, res, ctrlVars>>

\* io.use middleware, lines 52-69: the lookup returns; reject when there is
\* no user, otherwise attach it and accept.
HandshakeFinish(c) ==
  /\ phase[c] = "findById"
  /\ LET user == FindUserWithRoles(userRoles, lookup[c])
     IN  IF user = Null
           THEN /\ nextCalls' = [nextCalls EXCEPT ![c] = Append(@, Reject("User not found"))]
                /\ UNCHANGED sockUser
           ELSE /\ sockUser' = [sockUser EXCEPT ![c] = user]
                /\ nextCalls' = [nextCalls EXCEPT ![c] = Append(@, Accept)]
  /\ phase' = [phase EXCEPT ![c] = "decided"]
  /\ obs' = NoObs
  /\ UNCHANGED <<userActive, userRoles, token, lookup, activeConnections, pingInterval, registered, req, res, ctrlVars>>

\* io.on("connection"), lines 77-140: fired by the server for a socket whose
\* middleware called next() without an error.
ConnectionTimerFirst(c) ==
  /\ phase[c] = "decided"
  /\ nextCalls[c] # <<>>
  /\ Head(nextCalls[c]) = Accept
  /\ pingInterval' = [pingInterval EXCEPT ![c] = TRUE]
  /\ IF sockUser[c] = Null \/ Missing(sockUser[c], "_id")
       THEN /\ phase' = [phase EXCEPT ![c] = "dropped"]
            /\ UNCHANGED <<activeConnections, registered>>
       ELSE /\ activeConnections' = RegisterSocket(activeConnections, sockUser[c]._id, c)
            /\ registered' = Append(registered, c)
            /\ phase' = [phase EXCEPT ![c] = "connected"]
  /\ obs' = NoObs
  /\ UNCHANGED <<userActive, userRoles, token, lookup, nextCalls, sockUser, req, res, ctrlVars>>

Connection(c) ==
  /\ phase[c] = "decided"
  /\ nextCalls[c] # <<>>
  /\ Head(nextCalls[c]) = Accept
  /\ IF sockUser[c] = Null \/ Missing(sockUser[c], "_id")
       THEN /\ phase' = [phase EXCEPT ![c] = "dropped"]
            /\ UNCHANGED <<activeConnections, pingInterval, registered>>
       ELSE /\ activeConnections' = RegisterSocket(activeConnections, sockUser[c]._id, c)
            /\ registered' = Append(registered, c)
            /\ pingInterval' = [pingInterval EXCEPT ![c] = TRUE]
            /\ phase' = [phase EXCEPT ![c] = "connected"]
  /\ obs' = NoObs
  /\ UNCHANGED <<userActive, userRoles, token, lookup, nextCalls, sockUser, req, res, ctrlVars>>

\* socket.on("disconnect"), lines 111-134.
DisconnectKeepsTimer(c) ==
  /\ phase[c] = "connected"
  /\ activeConnections' = RemoveSocket(activeConnections, sockUser[c]._id, c)
  /\ phase' = [phase EXCEPT ![c] = "disconnected"]
  /\ obs' = NoObs
  /\ UNCHANGED <<userActive, userRoles, token, lookup, nextCalls, sockUser, pingInterval,
                 registered, req, res, ctrlVars>>

Disconnect(c) ==
  /\ phase[c] = "connected"
  /\ pingInterval' = [pingInterval EXCEPT ![c] = FALSE]
  /\ activeConnections' = RemoveSocket(activeConnections, sockUser[c]._id, c)
  /\ phase' = [phase EXCEPT ![c] = "disconnected"]
  /\ obs' = NoObs
  /\ UNCHANGED <<userActive, userRoles, token, lookup, nextCalls, sockUser, registered, req, res, ctrlVars>>

\* The setInterval callback, lines 105-108.
PingUnguarded(c) ==
  /\ obs' = [op |-> "ping", to |-> c]
  /\ UNCHANGED <<userActive, userRoles, token, lookup, nextCalls, sockUser, phase,
                 activeConnections, pingInterval, registered, req, res, ctrlVars>>

Ping(c) ==
  /\ pingInterval[c]
  /\ obs' = [op |-> "ping", to |-> c]
  /\ UNCHANGED <<userActive, userRoles, token, lookup, nextCalls, sockUser, phase,
                 activeConnections, pingInterval, registered, req, res, ctrlVars>>

\* notifyRoles(roles, event, data), lines 147-180, with `failing` the socket
\* whose emit throws (0: none).
NotifyRolesEverRegistered(roles, failing) ==
  /\ obs' = [op |-> "notifyRoles", roles |-> roles, failing |-> failing,
             attempted |-> SelectSeq(registered, LAMBDA c : SocketHasRole(sockUser[c], roles)),
             threw |-> FALSE,
             examined |-> NotifyScan(activeConnections, sockUser, roles, failing).examined,
             matched |-> NotifyScan(activeConnections, sockUser, roles, failing).matched]
  /\ UNCHANGED <<userActive, userRoles, token, lookup, nextCalls, sockUser, phase,
                 activeConnections, pingInterval, registered, req, res, ctrlVars>>

NotifyRoles(roles, failing) ==
  /\ obs' = [op |-> "notifyRoles", roles |-> roles, failing |-> failing,
             attempted |-> NotifyScan(activeConnections, sockUser, roles, failing).attempted,
             threw |-> NotifyScan(activeConnections, sockUser, roles, failing).threw,
             examined |-> NotifyScan(activeConnections, sockUser, roles, failing).examined,
             matched |-> NotifyScan(activeConnections, sockUser, roles, failing).matched]
  /\ UNCHANGED <<userActive, userRoles, token, lookup, nextCalls, sockUser, phase,
                 activeConnections, pingInterval, registered, req, res, ctrlVars>>

\* setUserRoles: 404 for an unknown user, 400 for an empty list or a list
\* with an id that matches no role, otherwise the roles array is replaced.
\* Its awaited reads (the user's existence, the Role collection) are of data
\* no operation here writes, so the handler is taken in one step.
SetUserRoles(userId, roles) ==
  /\ IF userId \notin DOMAIN userRoles
       THEN /\ obs' = [op |-> "setUserRoles", statusCode |-> 404]
            /\ UNCHANGED userRoles
     ELSE IF Len(roles) = 0
       THEN /\ obs' = [op |-> "setUserRoles", statusCode |-> 400]
            /\ UNCHANGED userRoles
     ELSE IF Cardinality(ValidRoles(roles)) # Len(roles)
       THEN /\ obs' = [op |-> "setUserRoles", statusCode |-> 400]
            /\ UNCHANGED userRoles
     ELSE /\ userRoles' = [userRoles EXCEPT ![userId] = roles]
          /\ obs' = [op |-> "setUserRoles", statusCode |-> 200]
  /\ UNCHANGED <<userActive, token, lookup, nextCalls, sockUser, phase,
                 activeConnections, pingInterval, registered, req, res, ctrlVars>>

Next ==
  \/ \E c \in Conns, t \in Tokens : HandshakeStart(c, t)
  \/ \E c \in Conns : HandshakeFinish(c)
  \/ \E c \in Conns : Connection(c)
  \/ \E c \in Conns : Disconnect(c)
  \/ \E c \in Conns : Ping(c)
  \/ \E roles \in NotifyRoleLists, failing \in {0} \cup Conns : NotifyRoles(roles, failing)
  \/ \E userId \in SetRolesTargets, roles \in RoleListInputs : SetUserRoles(userId, roles)

Spec == Init /\ [][Next]_vars

\* ------------------------------------------- route middleware on a request
InitAuthz ==
  /\ SocketInit
  /\ req \in Requests
  /\ res = NoRes

Authorize ==
  /\ req.mw = "authorize"
  /\ res = NoRes
  /\ res' = authorize(req.user, req.required)
  /\ UNCHANGED <<sockVars, req, ctrlVars>>

RequirePermissionEmptyAllows ==
  /\ req.mw = "requirePermission"
  /\ res = NoRes
  /\ res' = IF req.user # Null /\ req.required = <<>>
              THEN [nexts |-> <<Continue>>, probes |-> <<"SuperAdmin">>]
              ELSE requirePermission(req.user, req.required)
  /\ UNCHANGED <<sockVars, req, ctrlVars>>

RequirePermission ==
  /\ req.mw = "requirePermission"
  /\ res = NoRes
  /\ res' = requirePermission(req.user, req.required)
  /\ UNCHANGED <<sockVars, req, ctrlVars>>

NextAuthz == Authorize \/ RequirePermission

SpecAuthz == InitAuthz /\ [][NextAuthz]_vars

\* ------------------------------------ hasRole and hasPermission on their own
\* The user documents the two methods are called on: those of Principals, a
\* document loaded without its roles field, and documents whose role
\* documents carry no permissions field.
MethodPrincipals ==
  (Principals \ {Null})
    \cup {[kind |-> "doc", _id |-> "u1"]}
    \cup {UserDoc("u1", [i \in 1..Len(r) |-> [kind |-> "doc", name |-> r[i]]]) :
            r \in PrincipalRoleLists}

\* The strings hasPermission is called with: the codes of PermissionCodes and
\* the string "undefined:undefined".
CodeInputs == PermissionCodes \cup {<<"undefined", "undefined">>}

MethodCalls ==
  {[mw |-> "hasRole", user |-> p, required |-> n] : p \in MethodPrincipals, n \in RoleNames}
    \cup {[mw |-> "hasPermission", user |-> p, required |-> code] :
            p \in MethodPrincipals, code \in CodeInputs}

InitHas ==
  /\ SocketInit
  /\ req \in MethodCalls \cup Requests
  /\ res = NoRes

HasRole ==
  /\ req.mw = "hasRole"
  /\ res = NoRes
  /\ res' = [returned |-> hasRole(req.user, req.required)]
  /\ UNCHANGED <<sockVars, req, ctrlVars>>

HasPermission ==
  /\ req.mw = "hasPermission"
  /\ res = NoRes
  /\ res' = [returned |-> hasPermission(req.user, req.required)]
  /\ UNCHANGED <<sockVars, req, ctrlVars>>

NextHas == HasRole \/ HasPermission \/ Authorize \/ RequirePermission

SpecHas == InitHas /\ [][NextHas]_vars

\* ------------------------------------------------------- protect middleware
\* User.findById(userId).select('-password').populate({path: 'roles',
\* populate: {path: 'permissions'}}) against the stored users.
FindUserWithPermissions(db, active, userId) ==
  IF userId \in DOMAIN db
    THEN [kind |-> "doc", _id |-> userId, isActive |-> active[userId],
          roles |-> [i \in 1..Len(db[userId]) |-> RoleDocDeep(db[userId][i])]]
    ELSE Null

\* req.headers.authorization: absent, "Bearer <token>" ("Bearer" alone has
\* no second word), or another scheme.
NoHeader == [scheme |-> "none", token |-> NoToken]

Bearer(t) == [scheme |-> "Bearer", token |-> t]

Basic == [scheme |-> "Basic", token |-> NoToken]

\* Lines 12-22: the token of a Bearer header, else the token cookie.
ExtractToken(authorization, cookie) ==
  IF authorization.scheme = "Bearer" THEN authorization.token ELSE cookie

\* What protect answers when it does not attach a user.
Refuse(isRequired, message) == IF isRequired THEN ApiError(401, message) ELSE Continue

\* protect, lines 24-47: up to the awaited User.findById.
ProtectSyncUnverified(isRequired, t) ==
  IF t = NoToken
    THEN [nexts |-> <<Refuse(isRequired, "Not authorized to access this route")>>,
          user |-> Null, awaiting |-> FALSE, userId |-> Undefined]
  ELSE [nexts |-> <<>>, user |-> Null, awaiting |-> TRUE, userId |-> t.userId]

ProtectSync(isRequired, t) ==
  IF t = NoToken
    THEN [nexts |-> <<Refuse(isRequired, "Not authorized to access this route")>>,
          user |-> Null, awaiting |-> FALSE, userId |-> Undefined]
  ELSE IF verifyAccessToken(t).threw
    THEN [nexts |-> <<Refuse(isRequired, "Not authorized to access this route")>>,
          user |-> Null, awaiting |-> FALSE, userId |-> Undefined]
  ELSE [nexts |-> <<>>, user |-> Null, awaiting |-> TRUE,
        userId |-> verifyAccessToken(t).userId]

\* protect, lines 54-73: after the lookup.
ProtectResumeIgnoresActive(isRequired, user) ==
  IF user = Null
    THEN [nexts |-> <<Refuse(isRequired, "User not found")>>,
          user |-> Null, awaiting |-> FALSE, userId |-> Undefined]
  ELSE [nexts |-> <<Continue>>, user |-> user, awaiting |-> FALSE, userId |-> Undefined]

ProtectResume(isRequired, user) ==
  IF user = Null
    THEN [nexts |-> <<Refuse(isRequired, "User not found")>>,
          user |-> Null, awaiting |-> FALSE, userId |-> Undefined]
  ELSE IF ~user.isActive
    THEN [nexts |-> <<Refuse(isRequired, "User account is deactivated")>>,
          user |-> Null, awaiting |-> FALSE, userId |-> Undefined]
  ELSE [nexts |-> <<Continue>>, user |-> user, awaiting |-> FALSE, userId |-> Undefined]

\* The credentials an HTTP request may carry.
Credentials ==
  {[authorization |-> Bearer(t), cookie |-> NoToken] : t \in Tokens}
    \cup {[authorization |-> NoHeader, cookie |-> t] : t \in Tokens}
    \cup {[authorization |-> Basic, cookie |-> Jwt("ok", FALSE, "u1")],
          [authorization |-> Bearer(NoToken), cookie |-> Jwt("ok", FALSE, "u1")]}

\* protect(isRequired) applied to a request, up to its await.
ProtectStart(isRequired, cred) ==
  /\ req = NoReq
  /\ req' = [mw |-> "protect", isRequired |-> isRequired,
             authorization |-> cred.authorization, cookie |-> cred.cookie]
  /\ res' = ProtectSync(isRequired, ExtractToken(cred.authorization, cred.cookie))
  /\ UNCHANGED <<sockVars, ctrlVars>>

\* protect resumed with the user the lookup returns.
ProtectFinish ==
  /\ req.mw = "protect"
  /\ res.awaiting
  /\ res' = ProtectResume(req.isRequired,
                          FindUserWithPermissions(userRoles, userActive, res.userId))
  /\ UNCHANGED <<sockVars, req, ctrlVars>>

\* The socket handshake and protect side by side, on a User collection in
\* which updateUser (user.controller.ts lines 498-499) may have deactivated
\* any user.
InitAccess ==
  /\ userRoles = InitialRoles
  /\ userActive \in [Users -> BOOLEAN]
  /\ token = [c \in Conns |-> NoToken]
  /\ lookup = [c \in Conns |-> Undefined]
  /\ nextCalls = [c \in Conns |-> <<>>]
  /\ sockUser = [c \in Conns |-> Null]
  /\ phase = [c \in Conns |-> "new"]
  /\ activeConnections = <<>>
  /\ pingInterval = [c \in Conns |-> FALSE]
  /\ registered = <<>>
  /\ obs = NoObs
  /\ CtrlInit
  /\ req = NoReq
  /\ res = NoRes

NextAccess ==
  \/ \E c \in Conns, t \in Tokens : HandshakeStart(c, t)
  \/ \E c \in Conns : HandshakeFinish(c)
  \/ \E c \in Conns : Connection(c)
  \/ \E isRequired \in BOOLEAN, cred \in Credentials : ProtectStart(isRequired, cred)
  \/ ProtectFinish

SpecAccess == InitAccess /\ [][NextAccess]_vars

\* ------------------------------------ the registration step on its own
\* Sockets whose handshake was accepted; the registration step (lines 87-98),
\* the removal step (lines 118-128) and notifyRoles applied in any order.
InitRegister ==
  /\ userRoles = InitialRoles
  /\ userActive = AllActive
  /\ \E owner \in [Conns -> Users] :
       /\ token = [c \in Conns |-> Jwt("ok", FALSE, owner[c])]
       /\ lookup = owner
       /\ sockUser = [c \in Conns |-> FindUserWithRoles(InitialRoles, owner[c])]
  /\ nextCalls = [c \in Conns |-> <<Accept>>]
  /\ phase = [c \in Conns |-> "decided"]
  /\ activeConnections = <<>>
  /\ pingInterval = [c \in Conns |-> FALSE]
  /\ registered = <<>>
  /\ obs = NoObs
  /\ CtrlInit
  /\ req = NoReq
  /\ res = NoRes

RegisterStep(c) ==
  /\ \A i \in 1..Len(activeConnections) : Len(activeConnections[i].value) < MaxList
  /\ activeConnections' = RegisterSocket(activeConnections, sockUser[c]._id, c)
  /\ obs' = NoObs
  /\ UNCHANGED <<userActive, userRoles, token, lookup, nextCalls, sockUser, phase, pingInterval,
                 registered, req, res, ctrlVars>>

RemoveStep(c) ==
  /\ activeConnections' = RemoveSocket(activeConnections, sockUser[c]._id, c)
  /\ obs' = NoObs
  /\ UNCHANGED <<userActive, userRoles, token, lookup, nextCalls, sockUser, phase, pingInterval,
                 registered, req, res, ctrlVars>>

NextRegister ==
  \/ \E c \in Conns : RegisterStep(c)
  \/ \E c \in Conns : RemoveStep(c)
  \/ \E roles \in NotifyRoleLists, failing \in {0} \cup Conns : NotifyRoles(roles, failing)

SpecRegister == InitRegister /\ [][NextRegister]_vars

\* ------------------------------- the connection handler and its callbacks
\* Sockets whose handshake was accepted, taken from io.on("connection") on:
\* the connection handler, each socket's disconnect handler and heartbeat
\* callback, and notifyRoles, in any order the event loop may run them.
InitLifecycle ==
  /\ userRoles = InitialRoles
  /\ userActive = AllActive
  /\ \E owner \in [Socks -> Users] :
       /\ token = [c \in Socks |-> Jwt("ok", FALSE, owner[c])]
       /\ lookup = owner
       /\ sockUser = [c \in Socks |-> FindUserWithRoles(InitialRoles, owner[c])]
  /\ nextCalls = [c \in Socks |-> <<Accept>>]
  /\ phase = [c \in Socks |-> "decided"]
  /\ activeConnections = <<>>
  /\ pingInterval = [c \in Socks |-> FALSE]
  /\ registered = <<>>
  /\ obs = NoObs
  /\ CtrlInit
  /\ req = NoReq
  /\ res = NoRes

NextLifecycle ==
  \/ \E c \in Socks : Connection(c)
  \/ \E c \in Socks : Disconnect(c)
  \/ \E c \in Socks : Ping(c)
  \/ \E roles \in NotifyRoleLists, failing \in {0} \cup Socks : NotifyRoles(roles, failing)

SpecLifecycle == InitLifecycle /\ [][NextLifecycle]_vars

\* ------------------------------------- the connection handler on any socket
\* socket.user is optional in AuthenticatedSocket (lines 7-9): the connection
\* handler applied to sockets that carry a user, no user, or a user document
\* without _id.
HandlerUsers ==
  {FindUserWithRoles(InitialRoles, u) : u \in Users}
    \cup {Null, [kind |-> "doc", roles |-> <<>>]}

InitHandler ==
  /\ userRoles = InitialRoles
  /\ userActive = AllActive
  /\ token = [c \in Conns |-> NoToken]
  /\ lookup = [c \in Conns |-> Undefined]
  /\ sockUser \in [Conns -> HandlerUsers]
  /\ nextCalls = [c \in Conns |-> <<Accept>>]
  /\ phase = [c \in Conns |-> "decided"]
  /\ activeConnections = <<>>
  /\ pingInterval = [c \in Conns |-> FALSE]
  /\ registered = <<>>
  /\ obs = NoObs
  /\ CtrlInit
  /\ req = NoReq
  /\ res = NoRes

NextHandler ==
  \/ \E c \in Conns : Connection(c)
  \/ \E c \in Conns : Disconnect(c)
  \/ \E c \in Conns : Ping(c)
  \/ \E roles \in NotifyRoleLists, failing \in {0} \cup Conns : NotifyRoles(roles, failing)

SpecHandler == InitHandler /\ [][NextHandler]_vars

\* ------------------------------------------------- Mongoose query helpers
\* Model.findById / findOne: the matching document, or null.
FindById(docs, id) ==
  IF \E d \in docs : d._id = id THEN CHOOSE d \in docs : d._id = id ELSE Null

\* A field of req.body that is present, and one that is present and true.
Given(body, field) == field \in DOMAIN body

Truthy(body, field) == Given(body, field) /\ body[field]

\* Role.updateMany({ isDefault: true }, { isDefault: false })
UnsetDefaults(docs) == {[d EXCEPT !.isDefault = FALSE] : d \in docs}

\* Permission.find({ _id: { $in: permissions } }).distinct('_id')
ValidPermissionIds(docs, permissions) == {d._id : d \in docs} \cap Range(permissions)

\* The unique index on Role.name: whether a document other than `id`
\* already has the name.
RoleNameTaken(docs, id, name) == \E d \in docs : d._id # id /\ d.name = name

\* Role.findOne({ isDefault: true }), as register does without a roleId.
FindDefaultRole(docs) ==
  IF \E d \in docs : d.isDefault THEN CHOOSE d \in docs : d.isDefault ELSE Null

\* What the error handler answers for a duplicate-key error of the driver.
DuplicateKey(op) == Done(op, 500, "E11000 duplicate key error")

\* ---------------------------------------------------------- role controller
\* Request bodies and ids: createRole for two new names as default role,
\* with valid or unknown permission ids, and for a name already in use;
\* updateRole and deleteRole for stored roles and for an unknown id.
EmptyBody == <<>>

UnknownPermission == <<"no", "such">>

CreateRoleBodies ==
  {[name |-> "Ops", isDefault |-> TRUE],
   [name |-> "Ops", isDefault |-> TRUE, permissions |-> <<UnknownPermission>>],
   [name |-> "QA", isDefault |-> TRUE, permissions |-> << <<"blogs", "read">> >>],
   [name |-> "Editor", isDefault |-> FALSE]}

UpdateRoleInputs ==
  {[id |-> "Editor", body |-> [isDefault |-> TRUE]],
   [id |-> "User", body |-> EmptyBody],
   [id |-> "Editor", body |-> [name |-> "Admin"]],
   [id |-> "Viewer", body |-> [name |-> "Ops", permissions |-> <<UnknownPermission>>]],
   [id |-> "NoSuchRole", body |-> EmptyBody]}

DeleteRoleIds == {"User", "Editor", "Viewer", "NoSuchRole"}

\* Requests arrive in the order of their numbers.
Arrives(r) == calls[r] = Idle /\ \A q \in Calls : q < r => calls[q] # Idle

\* Where createRole / updateRole continues after the default-role step.
AfterUnset(body) ==
  IF Given(body, "permissions") /\ Len(body.permissions) > 0 THEN "permissions" ELSE "write"

\* createRole, lines 59-72: the name check, up to the next await.
CreateRoleStart(r, body) ==
  /\ Arrives(r)
  /\ calls' = [calls EXCEPT ![r] =
       IF \E d \in roleDocs : d.name = body.name
         THEN Done("createRole", 400, "Role with this name already exists")
       ELSE [op |-> "createRole", body |-> body,
             pc |-> IF Truthy(body, "isDefault") THEN "updateMany" ELSE AfterUnset(body)]]
  /\ UNCHANGED <<sockVars, req, res, roleDocs, permissionDocs, appVars>>

\* updateRole, lines 110-133: the lookup by id, up to the next await.
UpdateRoleAfterName(body, role) ==
  IF Truthy(body, "isDefault") /\ ~role.isDefault THEN "updateMany" ELSE AfterUnset(body)

UpdateRoleStart(r, id, body) ==
  /\ Arrives(r)
  /\ LET role == FindById(roleDocs, id)
     IN  calls' = [calls EXCEPT ![r] =
           IF role = Null THEN Done("updateRole", 404, "Role not found")
           ELSE [op |-> "updateRole", id |-> id, body |-> body, role |-> role,
                 pc |-> IF Given(body, "name") /\ body.name # role.name
                          THEN "findOne" ELSE UpdateRoleAfterName(body, role)]]
  /\ UNCHANGED <<sockVars, req, res, roleDocs, permissionDocs, appVars>>

\* updateRole, lines 123-129: the name check.
UpdateRoleFindName(r) ==
  /\ calls[r].pc = "findOne"
  /\ calls[r].op = "updateRole"
  /\ calls' = [calls EXCEPT ![r] =
       IF \E d \in roleDocs : d.name = calls[r].body.name
         THEN Done("updateRole", 400, "Role with this name already exists")
       ELSE [@ EXCEPT !.pc = UpdateRoleAfterName(calls[r].body, calls[r].role)]]
  /\ UNCHANGED <<sockVars, req, res, roleDocs, permissionDocs, appVars>>

\* createRole line 71, updateRole line 132: clear every default flag.
RoleUnsetDefaults(r) ==
  /\ calls[r].pc = "updateMany"
  /\ roleDocs' = UnsetDefaults(roleDocs)
  /\ calls' = [calls EXCEPT ![r] = [@ EXCEPT !.pc = AfterUnset(calls[r].body)]]
  /\ UNCHANGED <<sockVars, req, res, permissionDocs, appVars>>

\* createRole lines 74-82, updateRole lines 135-143: validate permission ids.
RoleCheckPermissions(r) ==
  /\ calls[r].pc = "permissions"
  /\ calls' = [calls EXCEPT ![r] =
       IF Cardinality(ValidPermissionIds(permissionDocs, calls[r].body.permissions))
            # Len(calls[r].body.permissions)
         THEN Done(calls[r].op, 400, "One or more permission IDs are invalid")
       ELSE [@ EXCEPT !.pc = "write"]]
  /\ UNCHANGED <<sockVars, req, res, roleDocs, permissionDocs, appVars>>

\* createRole, lines 84-99: Role.create and the response.
CreateRoleInsert(r) ==
  /\ calls[r].pc = "write"
  /\ calls[r].op = "createRole"
  /\ LET body == calls[r].body
     IN  IF RoleNameTaken(roleDocs, NewRoleId(r), body.name)
           THEN /\ calls' = [calls EXCEPT ![r] = DuplicateKey("createRole")]
                /\ UNCHANGED roleDocs
           ELSE /\ roleDocs' = roleDocs \cup
                     {RoleDoc(NewRoleId(r), body.name, Truthy(body, "isDefault"),
                              IF Given(body, "permissions") THEN body.permissions ELSE <<>>)}
                /\ calls' = [calls EXCEPT ![r] =
                     Done("createRole", 201, "Role created successfully")]
  /\ UNCHANGED <<sockVars, req, res, permissionDocs, appVars>>

\* updateRole, lines 145-168: findByIdAndUpdate with the values read at the
\* start of the request for every field the body leaves out.
UpdateRoleWrite(r) ==
  /\ calls[r].pc = "write"
  /\ calls[r].op = "updateRole"
  /\ LET id == calls[r].id
         body == calls[r].body
         role == calls[r].role
         name == IF Given(body, "name") THEN body.name ELSE role.name
         permissions == IF Given(body, "permissions") THEN body.permissions
                        ELSE role.permissions
         isDefault == IF Given(body, "isDefault") THEN body.isDefault ELSE role.isDefault
     IN  IF FindById(roleDocs, id) = Null
           THEN /\ calls' = [calls EXCEPT ![r] = Done("updateRole", 404, "Role not found")]
                /\ UNCHANGED roleDocs
         ELSE IF RoleNameTaken(roleDocs, id, name)
           THEN /\ calls' = [calls EXCEPT ![r] = DuplicateKey("updateRole")]
                /\ UNCHANGED roleDocs
         ELSE /\ roleDocs' = {d \in roleDocs : d._id # id}
                                \cup {RoleDoc(id, name, isDefault, permissions)}
              /\ calls' = [calls EXCEPT ![r] =
                   Done("updateRole", 200, "Role updated successfully")]
  /\ UNCHANGED <<sockVars, req, res, permissionDocs, appVars>>

\* deleteRole, lines 179-196: the lookup and the default-role check.
DeleteRoleStart(r, id) ==
  /\ Arrives(r)
  /\ LET role == FindById(roleDocs, id)
     IN  calls' = [calls EXCEPT ![r] =
           IF role = Null THEN Done("deleteRole", 404, "Role not found")
           ELSE IF role.isDefault
             THEN Done("deleteRole", 400, "Cannot delete the default role")
           ELSE [op |-> "deleteRole", id |-> id, pc |-> "countDocuments"]]
  /\ UNCHANGED <<sockVars, req, res, roleDocs, permissionDocs, appVars>>

\* deleteRole, lines 196-201: User.countDocuments({ roles: id }).
DeleteRoleCount(r) ==
  /\ calls[r].pc = "countDocuments"
  /\ calls' = [calls EXCEPT ![r] =
       IF \E u \in DOMAIN userRoles : calls[r].id \in Range(userRoles[u])
         THEN Done("deleteRole", 400, "Cannot delete a role that is assigned to users")
       ELSE [@ EXCEPT !.pc = "findByIdAndDelete"]]
  /\ UNCHANGED <<sockVars, req, res, roleDocs, permissionDocs, appVars>>

\* deleteRole, lines 203-208: Role.findByIdAndDelete and the response.
DeleteRoleRemove(r) ==
  /\ calls[r].pc = "findByIdAndDelete"
  /\ roleDocs' = {d \in roleDocs : d._id # calls[r].id}
  /\ calls' = [calls EXCEPT ![r] = Done("deleteRole", 200, "Role deleted successfully")]
  /\ UNCHANGED <<sockVars, req, res, permissionDocs, appVars>>

NextRoles ==
  \/ \E r \in Calls, body \in CreateRoleBodies : CreateRoleStart(r, body)
  \/ \E r \in Calls, in \in UpdateRoleInputs : UpdateRoleStart(r, in.id, in.body)
  \/ \E r \in Calls : UpdateRoleFindName(r)
  \/ \E r \in Calls : RoleUnsetDefaults(r)
  \/ \E r \in Calls : RoleCheckPermissions(r)
  \/ \E r \in Calls : CreateRoleInsert(r)
  \/ \E r \in Calls : UpdateRoleWrite(r)
  \/ \E r \in Calls, id \in DeleteRoleIds : DeleteRoleStart(r, id)
  \/ \E r \in Calls : DeleteRoleCount(r)
  \/ \E r \in Calls : DeleteRoleRemove(r)

InitRoles ==
  /\ SocketInit
  /\ req = NoReq
  /\ res = NoRes

SpecRoles == InitRoles /\ [][NextRoles]_vars

\* ------------------------------------------------ user roles and register
\* Requests on users' roles and registrations, run next to deleteRole. A
\* user's key stands for its unique email as well.
SetRolesInputs ==
  {[userId |-> "u1", roles |-> <<"Viewer">>],
   [userId |-> "u1", roles |-> <<>>],
   [userId |-> "u1", roles |-> <<"NoSuchRole">>],
   [userId |-> GhostUser, roles |-> <<"Viewer">>]}

AssignRolesInputs ==
  {[userId |-> "u1", roles |-> <<"Viewer">>],
   [userId |-> "u1", roles |-> <<"Editor">>],
   [userId |-> "u1", roles |-> <<>>],
   [userId |-> "u1", roles |-> <<"Viewer", "NoSuchRole">>],
   [userId |-> GhostUser, roles |-> <<"Viewer">>]}

RemoveRolesInputs ==
  {[userId |-> "u2", roles |-> <<"SuperAdmin">>],
   [userId |-> "u2", roles |-> <<"Admin">>],
   [userId |-> "u1", roles |-> <<"Editor">>],
   [userId |-> "u1", roles |-> <<>>],
   [userId |-> GhostUser, roles |-> <<"Admin">>]}

RegisterBodies ==
  {[email |-> "u3"],
   [email |-> "u3", roleId |-> "Viewer"],
   [email |-> "u3", roleId |-> "NoSuchRole"],
   [email |-> "u1"]}

\* Role.find({ _id: { $in: roles } }).distinct('_id')
ValidRoleIds(docs, roles) == {d._id : d \in docs} \cap Range(roles)

\* The elements of a list that are (not) in a set, in order.
Without(list, set) == SelectSeq(list, LAMBDA x : x \notin set)

\* The first steps of setUserRoles and assignRolesToUser: User.findById and
\* the check of req.body.roles, up to the awaited Role.find.
RolesRequestStart(r, op, userId, roles, emptyMessage) ==
  /\ Arrives(r)
  /\ calls' = [calls EXCEPT ![r] =
       IF userId \notin DOMAIN userRoles THEN Done(op, 404, "User not found")
       ELSE IF Len(roles) = 0 THEN Done(op, 400, emptyMessage)
       ELSE [op |-> op, userId |-> userId, roles |-> roles,
             user |-> userRoles[userId], pc |-> "findRoles"]]
  /\ UNCHANGED <<sockVars, req, res, roleDocs, permissionDocs, appVars>>

\* setUserRoles, lines 180-196.
SetUserRolesStart(r, userId, roles) ==
  RolesRequestStart(r, "setUserRoles", userId, roles,
                    "Please provide a non-empty array of role IDs")

\* setUserRoles, lines 198-203: Role.find and the length check.
SetUserRolesFindRoles(r) ==
  /\ calls[r].pc = "findRoles"
  /\ calls[r].op = "setUserRoles"
  /\ calls' = [calls EXCEPT ![r] =
       IF Cardinality(ValidRoleIds(roleDocs, calls[r].roles)) # Len(calls[r].roles)
         THEN Done("setUserRoles", 400, "One or more role IDs are invalid")
       ELSE [@ EXCEPT !.pc = "findByIdAndUpdate"]]
  /\ UNCHANGED <<sockVars, req, res, roleDocs, permissionDocs, appVars>>

\* setUserRoles, lines 205-221: User.findByIdAndUpdate(userId, { roles }).
SetUserRolesWrite(r) ==
  /\ calls[r].pc = "findByIdAndUpdate"
  /\ calls[r].op = "setUserRoles"
  /\ userRoles' = [userRoles EXCEPT ![calls[r].userId] = calls[r].roles]
  /\ calls' = [calls EXCEPT ![r] = Done("setUserRoles", 200, "User roles updated successfully")]
  /\ UNCHANGED <<userActive, token, lookup, nextCalls, sockUser, phase,
                 activeConnections, pingInterval, registered, obs,
                 req, res, roleDocs, permissionDocs, appVars>>

\* assignRolesToUser, lines 47-65.
AssignRolesStart(r, userId, roles) ==
  RolesRequestStart(r, "assignRolesToUser", userId, roles,
                    "Please provide an array of role IDs")

\* assignRolesToUser, lines 67-93: Role.find, the length check, and the
\* roles the user (as read at the start) does not have yet.
AssignRolesFindRoles(r) ==
  /\ calls[r].pc = "findRoles"
  /\ calls[r].op = "assignRolesToUser"
  /\ calls' = [calls EXCEPT ![r] =
       IF Cardinality(ValidRoleIds(roleDocs, calls[r].roles)) # Len(calls[r].roles)
         THEN Done("assignRolesToUser", 400, "One or more role IDs are invalid")
       ELSE IF Without(calls[r].roles, Range(calls[r].user)) = <<>>
         THEN Done("assignRolesToUser", 200, "No new roles to assign")
       ELSE [@ EXCEPT !.pc = "findByIdAndUpdate",
                      !.roles = Without(calls[r].roles, Range(calls[r].user))]]
  /\ UNCHANGED <<sockVars, req, res, roleDocs, permissionDocs, appVars>>

\* assignRolesToUser, lines 96-112: $addToSet of the new roles.
AssignRolesWrite(r) ==
  /\ calls[r].pc = "findByIdAndUpdate"
  /\ calls[r].op = "assignRolesToUser"
  /\ userRoles' = [userRoles EXCEPT ![calls[r].userId] =
                     @ \o Without(calls[r].roles, Range(@))]
  /\ calls' = [calls EXCEPT ![r] =
                 Done("assignRolesToUser", 200, "Roles assigned to user successfully")]
  /\ UNCHANGED <<userActive, token, lookup, nextCalls, sockUser, phase,
                 activeConnections, pingInterval, registered, obs,
                 req, res, roleDocs, permissionDocs, appVars>>

\* removeRolesFromUser, lines 124-150: User.findById, the check of
\* req.body.roles, and the roles that would remain of those just read.
RemoveRolesStart(r, userId, roles) ==
  /\ Arrives(r)
  /\ calls' = [calls EXCEPT ![r] =
       IF userId \notin DOMAIN userRoles THEN Done("removeRolesFromUser", 404, "User not found")
       ELSE IF Len(roles) = 0
         THEN Done("removeRolesFromUser", 400, "Please provide an array of role IDs")
       ELSE IF Without(userRoles[userId], Range(roles)) = <<>>
         THEN Done("removeRolesFromUser", 400, "User must have at least one role")
       ELSE [op |-> "removeRolesFromUser", userId |-> userId, roles |-> roles,
             pc |-> "findByIdAndUpdate"]]
  /\ UNCHANGED <<sockVars, req, res, roleDocs, permissionDocs, appVars>>

\* removeRolesFromUser, lines 152-168: $pullAll of the requested roles.
RemoveRolesWrite(r) ==
  /\ calls[r].pc = "findByIdAndUpdate"
  /\ calls[r].op = "removeRolesFromUser"
  /\ userRoles' = [userRoles EXCEPT ![calls[r].userId] = Without(@, Range(calls[r].roles))]
  /\ calls' = [calls EXCEPT ![r] =
                 Done("removeRolesFromUser", 200, "Roles removed from user successfully")]
  /\ UNCHANGED <<userActive, token, lookup, nextCalls, sockUser, phase,
                 activeConnections, pingInterval, registered, obs,
                 req, res, roleDocs, permissionDocs, appVars>>

\* register, lines 20-31: User.findOne({ email }).
RegisterStart(r, body) ==
  /\ Arrives(r)
  /\ calls' = [calls EXCEPT ![r] =
       IF body.email \in DOMAIN userRoles
         THEN Done("register", 400, "User with this email already exists")
       ELSE [op |-> "register", body |-> body, pc |-> "findRole"]]
  /\ UNCHANGED <<sockVars, req, res, roleDocs, permissionDocs, appVars>>

\* register, lines 33-51: the role of roleId, or the default role.
RegisterFindRole(r) ==
  /\ calls[r].pc = "findRole"
  /\ LET body == calls[r].body
         role == IF Given(body, "roleId") THEN FindById(roleDocs, body.roleId)
                 ELSE FindDefaultRole(roleDocs)
     IN  calls' = [calls EXCEPT ![r] =
           IF role = Null
             THEN IF Given(body, "roleId") THEN Done("register", 400, "Role not found")
                  ELSE Done("register", 500, "Default role not found")
           ELSE [@ EXCEPT !.pc = "create"] @@ [role |-> role._id]]
  /\ UNCHANGED <<sockVars, req, res, roleDocs, permissionDocs, appVars>>

\* register, lines 53-73: User.create with roles [role._id]; the unique
\* index on email refuses a second user of the email.
RegisterCreate(r) ==
  /\ calls[r].pc = "create"
  /\ calls[r].op = "register"
  /\ IF calls[r].body.email \in DOMAIN userRoles
       THEN /\ calls' = [calls EXCEPT ![r] = DuplicateKey("register")]
            /\ UNCHANGED <<userRoles, userActive>>
       ELSE /\ userRoles' = userRoles @@ [u \in {calls[r].body.email} |-> <<calls[r].role>>]
            /\ userActive' = userActive @@ [u \in {calls[r].body.email} |-> TRUE]
            /\ calls' = [calls EXCEPT ![r] = Done("register", 201, "Registration successful")]
  /\ UNCHANGED <<token, lookup, nextCalls, sockUser, phase,
                 activeConnections, pingInterval, registered, obs,
                 req, res, roleDocs, permissionDocs, appVars>>

NextUserRoles ==
  \/ \E r \in Calls, in \in SetRolesInputs : SetUserRolesStart(r, in.userId, in.roles)
  \/ \E r \in Calls : SetUserRolesFindRoles(r)
  \/ \E r \in Calls : SetUserRolesWrite(r)
  \/ \E r \in Calls, in \in AssignRolesInputs : AssignRolesStart(r, in.userId, in.roles)
  \/ \E r \in Calls : AssignRolesFindRoles(r)
  \/ \E r \in Calls : AssignRolesWrite(r)
  \/ \E r \in Calls, in \in RemoveRolesInputs : RemoveRolesStart(r, in.userId, in.roles)
  \/ \E r \in Calls : RemoveRolesWrite(r)
  \/ \E r \in Calls, body \in RegisterBodies : RegisterStart(r, body)
  \/ \E r \in Calls : RegisterFindRole(r)
  \/ \E r \in Calls : RegisterCreate(r)
  \/ \E r \in Calls, id \in DeleteRoleIds : DeleteRoleStart(r, id)
  \/ \E r \in Calls : DeleteRoleCount(r)
  \/ \E r \in Calls : DeleteRoleRemove(r)

SpecUserRoles == InitRoles /\ [][NextUserRoles]_vars

\* ------------------------------------------------- application controller
\* Requests: applications to the published career from two emails, to the
\* draft career and to a career that does not exist; status updates and
\* deletions of the applications the requests may create and of an unknown id.
SubmitApplicationBodies ==
  {[career |-> "c1", email |-> "a@x.io"],
   [career |-> "c1", email |-> "b@x.io"],
   [career |-> "c2", email |-> "a@x.io"],
   [career |-> "c9", email |-> "a@x.io"]}

ApplicationIds == {NewApplicationId(r) : r \in Calls} \cup {"NoSuchApplication"}

\* submitApplication, lines 614-635: Career.findById and its checks.
SubmitApplicationStart(r, body) ==
  /\ Arrives(r)
  /\ calls' = [calls EXCEPT ![r] =
       IF body.career \notin DOMAIN careerDocs
         THEN Done("submitApplication", 404, "Career not found")
       ELSE IF careerDocs[body.career].status # "published"
         THEN Done("submitApplication", 400, "This job is not accepting applications")
       ELSE [op |-> "submitApplication", body |-> body, pc |-> "findOne"]]
  /\ UNCHANGED <<sockVars, req, res, roleDocs, permissionDocs, appVars>>

\* submitApplication, lines 637-647: Application.findOne({ career, email }).
SubmitApplicationFindOne(r) ==
  /\ calls[r].pc = "findOne"
  /\ calls[r].op = "submitApplication"
  /\ calls' = [calls EXCEPT ![r] =
       IF \E a \in applicationDocs :
            a.career = calls[r].body.career /\ a.email = calls[r].body.email
         THEN Done("submitApplication", 400, "You have already applied for this position")
       ELSE [@ EXCEPT !.pc = "create"]]
  /\ UNCHANGED <<sockVars, req, res, roleDocs, permissionDocs, appVars>>

\* submitApplication, lines 649-657: Application.create stores the document.
SubmitApplicationCreate(r) ==
  /\ calls[r].pc = "create"
  /\ calls[r].op = "submitApplication"
  /\ applicationDocs' = applicationDocs \cup
       {[_id |-> NewApplicationId(r), career |-> calls[r].body.career,
         email |-> calls[r].body.email, status |-> "pending"]}
  /\ calls' = [calls EXCEPT ![r] = [@ EXCEPT !.pc = "postSave"]]
  /\ UNCHANGED <<sockVars, req, res, roleDocs, permissionDocs, careerDocs>>

\* ApplicationSchema.post('save'): $inc of the career's applicationsCount.
ApplicationPostSave(r) ==
  /\ calls[r].pc = "postSave"
  /\ careerDocs' = [c \in DOMAIN careerDocs |->
       IF c = calls[r].body.career
         THEN [careerDocs[c] EXCEPT !.applicationsCount = @ + 1]
         ELSE careerDocs[c]]
  /\ calls' = [calls EXCEPT ![r] = [@ EXCEPT !.pc = "findById"]]
  /\ UNCHANGED <<sockVars, req, res, roleDocs, permissionDocs, applicationDocs>>

\* submitApplication, lines 659-669: Application.findById().populate, the
\* notifyRoles call (an emit that throws lands in the catch block) and the
\* response.
SubmitApplicationNotify(r, failing) ==
  /\ calls[r].pc = "findById"
  /\ calls[r].op = "submitApplication"
  /\ LET scan == NotifyScan(activeConnections, sockUser,
                            <<"SuperAdmin", "Admin", "HRManager">>, failing)
     IN  /\ obs' = [op |-> "notifyRoles", roles |-> <<"SuperAdmin", "Admin", "HRManager">>,
                    failing |-> failing, attempted |-> scan.attempted,
                    threw |-> scan.threw, examined |-> scan.examined,
                    matched |-> scan.matched]
         /\ calls' = [calls EXCEPT ![r] =
              IF scan.threw THEN Done("submitApplication", 500, "emit failed")
              ELSE Done("submitApplication", 201, "Application submitted successfully")]
  /\ UNCHANGED <<userActive, userRoles, token, lookup, nextCalls, sockUser, phase,
                 activeConnections, pingInterval, registered, req, res,
                 roleDocs, permissionDocs, appVars>>

\* updateApplicationStatus, lines 772-800: one Application.findByIdAndUpdate.
UpdateApplicationStatus(r, id, status) ==
  /\ Arrives(r)
  /\ IF \E a \in applicationDocs : a._id = id
       THEN /\ applicationDocs' =
                 {IF a._id = id THEN [a EXCEPT !.status = status] ELSE a : a \in applicationDocs}
            /\ calls' = [calls EXCEPT ![r] =
                 Done("updateApplicationStatus", 200, "Application status updated successfully")]
       ELSE /\ calls' = [calls EXCEPT ![r] =
                 Done("updateApplicationStatus", 404, "Application not found")]
            /\ UNCHANGED applicationDocs
  /\ UNCHANGED <<sockVars, req, res, roleDocs, permissionDocs, careerDocs>>

\* deleteApplication, lines 807-819: Application.findById.
DeleteApplicationStart(r, id) ==
  /\ Arrives(r)
  /\ calls' = [calls EXCEPT ![r] =
       IF \E a \in applicationDocs : a._id = id
         THEN [op |-> "deleteApplication", id |-> id, pc |-> "deleteOne"]
         ELSE Done("deleteApplication", 404, "Application not found")]
  /\ UNCHANGED <<sockVars, req, res, roleDocs, permissionDocs, appVars>>

\* deleteApplication, lines 821-827: application.deleteOne().
DeleteApplicationRemove(r) ==
  /\ calls[r].pc = "deleteOne"
  /\ applicationDocs' = {a \in applicationDocs : a._id # calls[r].id}
  /\ calls' = [calls EXCEPT ![r] =
                 Done("deleteApplication", 200, "Application deleted successfully")]
  /\ UNCHANGED <<sockVars, req, res, roleDocs, permissionDocs, careerDocs>>

NextApplications ==
  \/ \E r \in Calls, body \in SubmitApplicationBodies : SubmitApplicationStart(r, body)
  \/ \E r \in Calls : SubmitApplicationFindOne(r)
  \/ \E r \in Calls : SubmitApplicationCreate(r)
  \/ \E r \in Calls : ApplicationPostSave(r)
  \/ \E r \in Calls, failing \in {0} \cup Conns : SubmitApplicationNotify(r, failing)
  \/ \E r \in Calls, id \in ApplicationIds : UpdateApplicationStatus(r, id, "reviewed")
  \/ \E r \in Calls, id \in ApplicationIds : DeleteApplicationStart(r, id)
  \/ \E r \in Calls : DeleteApplicationRemove(r)

SpecApplications == InitRoles /\ [][NextApplications]_vars

\* ---------------------------------------------------- permission controller
\* Request bodies and ids: createPermission for new pairs and for a stored
\* pair; updatePermission moving stored permissions to a new pair, to a
\* stored pair, or nowhere, and for an unknown id.
CreatePermissionBodies ==
  {[resource |-> "blogs", name |-> "publish"],
   [resource |-> "careers", name |-> "read"],
   [resource |-> "blogs", name |-> "update"]}

UpdatePermissionInputs ==
  {[id |-> <<"blogs", "update">>, body |-> [name |-> "publish"]],
   [id |-> <<"blogs", "create">>, body |-> [name |-> "publish"]],
   [id |-> <<"careers", "manage">>, body |-> [resource |-> "blogs", name |-> "publish"]],
   [id |-> <<"blogs", "read">>, body |-> [name |-> "update"]],
   [id |-> <<"blogs", "update">>, body |-> EmptyBody],
   [id |-> UnknownPermission, body |-> EmptyBody]}

\* The unique index { resource: 1, name: 1 }: whether a document other than
\* `id` already has the pair.
PairTaken(docs, id, resource, name) ==
  \E d \in docs : d._id # id /\ d.resource = resource /\ d.name = name

AlreadyExists(resource, name) ==
  "Permission '" \o resource \o ":" \o name \o "' already exists"

\* createPermission, lines 177-187: the existence check.
CreatePermissionStart(r, body) ==
  /\ Arrives(r)
  /\ calls' = [calls EXCEPT ![r] =
       IF \E d \in permissionDocs : d.name = body.name /\ d.resource = body.resource
         THEN Done("createPermission", 400, AlreadyExists(body.resource, body.name))
       ELSE [op |-> "createPermission", body |-> body, pc |-> "create"]]
  /\ UNCHANGED <<sockVars, req, res, roleDocs, permissionDocs, appVars>>

\* createPermission, lines 190-202: Permission.create and the response.
CreatePermissionInsertNoIndex(r) ==
  /\ calls[r].pc = "create"
  /\ calls[r].op = "createPermission"
  /\ permissionDocs' = permissionDocs \cup
       {PermissionDoc(NewPermissionId(r), calls[r].body.resource, calls[r].body.name)}
  /\ calls' = [calls EXCEPT ![r] =
       Done("createPermission", 201, "Permission created successfully")]
  /\ UNCHANGED <<sockVars, req, res, roleDocs, appVars>>

CreatePermissionInsert(r) ==
  /\ calls[r].pc = "create"
  /\ calls[r].op = "createPermission"
  /\ LET body == calls[r].body
     IN  IF PairTaken(permissionDocs, NewPermissionId(r), body.resource, body.name)
           THEN /\ calls' = [calls EXCEPT ![r] = DuplicateKey("createPermission")]
                /\ UNCHANGED permissionDocs
           ELSE /\ permissionDocs' = permissionDocs \cup
                     {PermissionDoc(NewPermissionId(r), body.resource, body.name)}
                /\ calls' = [calls EXCEPT ![r] =
                     Done("createPermission", 201, "Permission created successfully")]
  /\ UNCHANGED <<sockVars, req, res, roleDocs, appVars>>

\* updatePermission, lines 213-227: the lookup by id.
UpdatePermissionStart(r, id, body) ==
  /\ Arrives(r)
  /\ LET permission == FindById(permissionDocs, id)
     IN  calls' = [calls EXCEPT ![r] =
           IF permission = Null THEN Done("updatePermission", 404, "Permission not found")
           ELSE [op |-> "updatePermission", id |-> id, body |-> body,
                 permission |-> permission,
                 pc |-> IF \/ Given(body, "name") /\ body.name # permission.name
                           \/ Given(body, "resource") /\ body.resource # permission.resource
                          THEN "findOne" ELSE "findByIdAndUpdate"]]
  /\ UNCHANGED <<sockVars, req, res, roleDocs, permissionDocs, appVars>>

\* The pair updatePermission is about to store.
UpdatedName(c) == IF Given(c.body, "name") THEN c.body.name ELSE c.permission.name

UpdatedResource(c) ==
  IF Given(c.body, "resource") THEN c.body.resource ELSE c.permission.resource

\* updatePermission, lines 228-239: the check for another document with the
\* new pair.
UpdatePermissionFindPair(r) ==
  /\ calls[r].pc = "findOne"
  /\ calls[r].op = "updatePermission"
  /\ calls' = [calls EXCEPT ![r] =
       IF PairTaken(permissionDocs, calls[r].id, UpdatedResource(calls[r]), UpdatedName(calls[r]))
         THEN Done("updatePermission", 400,
                   AlreadyExists(UpdatedResource(calls[r]), UpdatedName(calls[r])))
       ELSE [@ EXCEPT !.pc = "findByIdAndUpdate"]]
  /\ UNCHANGED <<sockVars, req, res, roleDocs, permissionDocs, appVars>>

\* updatePermission, lines 242-264: findByIdAndUpdate and the response.
UpdatePermissionWrite(r) ==
  /\ calls[r].pc = "findByIdAndUpdate"
  /\ calls[r].op = "updatePermission"
  /\ LET id == calls[r].id
         resource == UpdatedResource(calls[r])
         name == UpdatedName(calls[r])
     IN  IF FindById(permissionDocs, id) = Null
           THEN /\ calls' = [calls EXCEPT ![r] =
                     Done("updatePermission", 404, "Permission not found")]
                /\ UNCHANGED permissionDocs
         ELSE IF PairTaken(permissionDocs, id, resource, name)
           THEN /\ calls' = [calls EXCEPT ![r] = DuplicateKey("updatePermission")]
                /\ UNCHANGED permissionDocs
         ELSE /\ permissionDocs' = {d \in permissionDocs : d._id # id}
                                      \cup {PermissionDoc(id, resource, name)}
              /\ calls' = [calls EXCEPT ![r] =
                   Done("updatePermission", 200, "Permission updated successfully")]
  /\ UNCHANGED <<sockVars, req, res, roleDocs, appVars>>

NextPermissions ==
  \/ \E r \in Calls, body \in CreatePermissionBodies : CreatePermissionStart(r, body)
  \/ \E r \in Calls : CreatePermissionInsert(r)
  \/ \E r \in Calls, in \in UpdatePermissionInputs : UpdatePermissionStart(r, in.id, in.body)
  \/ \E r \in Calls : UpdatePermissionFindPair(r)
  \/ \E r \in Calls : UpdatePermissionWrite(r)

SpecPermissions == InitRoles /\ [][NextPermissions]_vars

\* ================================================================== claims
\* Sockets that were registered and have not disconnected, per user.
Live(u) ==
  {c \in Conns : phase[c] = "connected" /\ sockUser[c] # Null /\ sockUser[c]._id = u}

\* The sockets held anywhere in the registry.
InRegistry(c) ==
  \E i \in 1..Len(activeConnections) : c \in Range(activeConnections[i].value)

\* C1: a user id is a key of activeConnections iff that user has a socket
\* that was registered and has not disconnected; each key occurs once and no
\* key maps to an empty list.
C1_RegistryInvariant ==
  /\ \A u \in Users \cup {GhostUser} : MapHas(activeConnections, u) <=> Live(u) # {}
  /\ \A i \in 1..Len(activeConnections) : Len(activeConnections[i].value) > 0
  /\ \A i, j \in 1..Len(activeConnections) :
       activeConnections[i].key = activeConnections[j].key => i = j

C1_Witness ==
  \E c, d \in Conns :
    /\ phase[c] = "disconnected"
    /\ phase[d] = "connected"
    /\ sockUser[c]._id = sockUser[d]._id
    /\ MapHas(activeConnections, sockUser[d]._id)

\* Role names and permission codes a principal holds through resolved
\* role and permission documents.
RolesResolved(p) == p # Null /\ \A i \in 1..Len(p.roles) : p.roles[i].kind = "doc"

PermissionsResolved(p) ==
  /\ RolesResolved(p)
  /\ \A i \in 1..Len(p.roles) :
       \A j \in 1..Len(p.roles[i].permissions) : p.roles[i].permissions[j].kind = "doc"

NamesOf(p) ==
  IF p = Null THEN {}
  ELSE {p.roles[i].name : i \in {k \in 1..Len(p.roles) : p.roles[k].kind = "doc"}}

HeldBy(p) ==
  IF p = Null THEN {}
  ELSE UNION {{<<q.resource, q.name>> :
                 q \in {x \in Range(p.roles[i].permissions) : x.kind = "doc"}} :
              i \in {k \in 1..Len(p.roles) : p.roles[k].kind = "doc"}}

Allowed == res.nexts = <<Continue>>

RoleAllow(p, R) == "SuperAdmin" \in NamesOf(p) \/ NamesOf(p) \cap Range(R) # {}

PermissionAllow(p, P) ==
  \/ "SuperAdmin" \in NamesOf(p)
  \/ \E i \in 1..Len(P) : P[i] \in HeldBy(p)
  \/ \E i \in 1..Len(P) :
       <<P[i][1], "manage">> \in HeldBy(p) \/ <<"all", "manage">> \in HeldBy(p)

\* C2: for a principal with resolved roles, authorize allows iff the
\* principal has role SuperAdmin or one of its roles is named in the list.
C2_AuthorizeIffRole ==
  (req.mw = "authorize" /\ res # NoRes /\ RolesResolved(req.user))
    => (Allowed <=> RoleAllow(req.user, req.required))

C2_Witness ==
  /\ req.mw = "authorize"
  /\ RolesResolved(req.user)
  /\ Len(req.user.roles) = 2
  /\ "SuperAdmin" \notin NamesOf(req.user)
  /\ req.user.roles[2].name \in Range(req.required)
  /\ req.user.roles[1].name \notin Range(req.required)
  /\ Allowed

\* C3: for a principal with resolved roles and permissions, requirePermission
\* allows iff the principal is SuperAdmin, or holds a listed code, or holds
\* resource:manage or all:manage for some listed resource:action.
C3_PermissionIffHeld ==
  (req.mw = "requirePermission" /\ res # NoRes /\ PermissionsResolved(req.user))
    => (Allowed <=> PermissionAllow(req.user, req.required))

C3_Witness ==
  /\ req.mw = "requirePermission"
  /\ PermissionsResolved(req.user)
  /\ NamesOf(req.user) = {"HRManager"}
  /\ req.required = << <<"careers", "create">> >>
  /\ <<"careers", "create">> \notin HeldBy(req.user)
  /\ Allowed

\* The sockets notifyRoles should reach: those in the registry whose user's
\* first socket carries a principal with one of the roles.
ShouldReceive(c, roles) ==
  \E i \in 1..Len(activeConnections) :
    /\ c \in Range(activeConnections[i].value)
    /\ activeConnections[i].key = sockUser[c]._id
    /\ NamesOf(sockUser[activeConnections[i].value[1]]) \cap Range(roles) # {}

\* C4: notifyRoles calls emit on a socket iff the socket is in the registry
\* under its user's id and the first socket of that user carries a principal
\* with one of the roles.
C4_NotifyReachesExactlyMatching ==
  obs.op = "notifyRoles"
    => \A c \in Conns : c \in Range(obs.attempted) <=> ShouldReceive(c, obs.roles)

\* C5: each middleware makes exactly one next() call per request: 401 and no
\* role examined when no principal is attached, 403 when a principal is
\* attached and no allow condition holds, a plain next() otherwise.
C5_OneOutcomePerRequest ==
  res # NoRes =>
    /\ Len(res.nexts) = 1
    /\ req.user = Null => (res.nexts = <<Unauthenticated>> /\ res.probes = <<>>)
    /\ req.user # Null =>
         LET allow == IF req.mw = "authorize" THEN RoleAllow(req.user, req.required)
                      ELSE PermissionAllow(req.user, req.required)
         IN  IF allow THEN res.nexts = <<Continue>>
             ELSE res.nexts[1].statusCode = 403

C5_Witness ==
  /\ res # NoRes
  /\ req.user = Null
  /\ Len(req.required) > 0
  /\ res.nexts[1].statusCode = 401

\* C6: a throwing emit is swallowed: notifyRoles does not throw and still
\* calls emit on every other socket it should reach.
C6_SendFailureIsolated ==
  (obs.op = "notifyRoles" /\ obs.failing # 0)
    => /\ ~obs.threw
       /\ \A c \in Conns : ShouldReceive(c, obs.roles) => c \in Range(obs.attempted)

\* A token that passes verification and carries a userId claim.
GoodToken(t) ==
  t # NoToken /\ t.sig = "ok" /\ ~t.expired /\ t.userId # Undefined

Rejected(c) == nextCalls[c] # <<>> /\ Head(nextCalls[c]) # Accept

\* C7: a socket is in the registry or has a heartbeat timer only if its
\* handshake carried a verifying token with a userId, was accepted and
\* attached that user; a rejected handshake never gets past the middleware.
C7_RejectedNeverRegistered ==
  \A c \in Conns :
    /\ (InRegistry(c) \/ pingInterval[c]) =>
         /\ GoodToken(token[c])
         /\ nextCalls[c] = <<Accept>>
         /\ sockUser[c] # Null
         /\ sockUser[c]._id = token[c].userId
    /\ Rejected(c) => (~InRegistry(c) /\ ~pingInterval[c] /\ phase[c] = "decided")

C7_Witness ==
  \E c, d \in Conns :
    /\ token[c] # NoToken
    /\ token[c].expired
    /\ Rejected(c)
    /\ InRegistry(d)
    /\ pingInterval[d]

\* C8: a token that is present but fails verification is rejected with
\* 'Authentication error: Invalid token'.
C8_FailedVerificationIsInvalidToken ==
  \A c \in Conns :
    (phase[c] = "decided" /\ token[c] # NoToken /\ (token[c].sig # "ok" \/ token[c].expired))
      => nextCalls[c] = <<Reject("Invalid token")>>

\* C9: the handshake checks run in order and the first failing one decides:
\* no token, then no userId claim, then no user record; only when all pass
\* is the user attached and the handshake accepted; a finished handshake has
\* made exactly one next() call and an unfinished one none.
C9_HandshakeOrder ==
  \A c \in Conns :
    /\ phase[c] \in {"new", "findById"} => nextCalls[c] = <<>>
    /\ phase[c] \notin {"new", "findById"} =>
         /\ Len(nextCalls[c]) = 1
         /\ token[c] = NoToken => nextCalls[c] = <<Reject("Token not provided")>>
         /\ (token[c] # NoToken /\ token[c].sig = "ok" /\ ~token[c].expired) =>
              /\ token[c].userId = Undefined => nextCalls[c] = <<Reject("Invalid token")>>
              /\ token[c].userId \notin Users \cup {Undefined} =>
                   nextCalls[c] = <<Reject("User not found")>>
              /\ token[c].userId \in Users =>
                   (nextCalls[c] = <<Accept>> /\ sockUser[c] # Null)
         /\ nextCalls[c] = <<Accept>> => (GoodToken(token[c]) /\ token[c].userId \in Users)
         /\ nextCalls[c] # <<Accept>> => sockUser[c] = Null

C9_Witness ==
  \E c, d \in Conns :
    /\ token[c] = Jwt("ok", FALSE, Undefined)
    /\ nextCalls[c] = <<Reject("Invalid token")>>
    /\ token[d] = Jwt("ok", FALSE, GhostUser)
    /\ nextCalls[d] = <<Reject("User not found")>>

\* How often a value occurs in a sequence.
Count(seq, x) == Cardinality({i \in 1..Len(seq) : seq[i] = x})

ListOf(m, u) == IF MapHas(m, u) THEN MapGet(m, u) ELSE <<>>

\* C11: the disconnect of a socket takes exactly that socket out of the
\* registry, every list keeping its other members in their order, and a
\* notifyRoles call made after a socket of a user has disconnected still
\* calls emit on each socket of that user that remains and should be reached.
C11_DisconnectRemovesOnlyThat ==
  [][/\ \A c \in Socks :
          (phase[c] = "connected" /\ phase'[c] = "disconnected") =>
            \A u \in Users :
              ListOf(activeConnections', u)
                = SelectSeq(ListOf(activeConnections, u), LAMBDA s : s # c)
     /\ obs'.op = "notifyRoles" =>
          \A c, d \in Socks :
            (/\ phase'[d] = "disconnected"
             /\ phase'[c] = "connected"
             /\ sockUser'[c]._id = sockUser'[d]._id
             /\ ShouldReceive(c, obs.roles)')
              => c \in Range(obs'.attempted)]_vars

\* C12: a heartbeat ping goes only to a socket whose disconnect handler has
\* not run; the handler leaves the socket with no timer and out of the
\* registry in the same step.
C12_NoPingAfterDisconnect ==
  /\ obs.op = "ping" => phase[obs.to] = "connected"
  /\ \A c \in Conns : phase[c] = "disconnected" => (~pingInterval[c] /\ ~InRegistry(c))

C12_Witness ==
  \E c, d \in Conns :
    /\ phase[c] = "disconnected"
    /\ phase[d] = "connected"
    /\ sockUser[c]._id = sockUser[d]._id
    /\ obs = [op |-> "ping", to |-> d]

\* C13: a notifyRoles scan examines the entry of every socket that is in the
\* registry when it runs, examines no entry of a user without such a socket,
\* and calls emit on no socket outside the registry.
C13_ScanCoversRegistered ==
  obs.op = "notifyRoles" =>
    /\ \A c \in Socks : InRegistry(c) => sockUser[c]._id \in Range(obs.examined)
    /\ \A u \in Range(obs.examined) : \E c \in Socks : InRegistry(c) /\ sockUser[c]._id = u
    /\ \A c \in Range(obs.attempted) : InRegistry(c)

\* A principal whose roles are absent, empty or all unpopulated references,
\* and one whose roles are documents with permissions absent or unpopulated.
RolesUnresolved(p) ==
  \/ Missing(p, "roles")
  \/ \A i \in 1..Len(p.roles) : p.roles[i].kind = "oid"

PermissionsUnresolved(p) ==
  /\ ~Missing(p, "roles")
  /\ Len(p.roles) > 0
  /\ \A i \in 1..Len(p.roles) :
       /\ p.roles[i].kind = "doc"
       /\ \/ Missing(p.roles[i], "permissions")
          \/ \A j \in 1..Len(p.roles[i].permissions) : p.roles[i].permissions[j].kind = "oid"

\* C16: hasRole returns false for every role name when the roles are absent,
\* empty or unpopulated; hasPermission returns false for every code string
\* when the roles are documents whose permissions are absent or unpopulated;
\* authorize and requirePermission deny a principal with such roles, and
\* requirePermission denies one with such permissions who is not SuperAdmin.
C16_FailClosed ==
  res # NoRes =>
    /\ (req.mw = "hasRole" /\ RolesUnresolved(req.user)) => ~res.returned
    /\ (req.mw = "hasPermission" /\ PermissionsUnresolved(req.user)) => ~res.returned
    /\ (req.mw \in {"authorize", "requirePermission"} /\ req.user # Null
          /\ RolesUnresolved(req.user)) => ~Allowed
    /\ (req.mw = "requirePermission" /\ req.user # Null
          /\ PermissionsUnresolved(req.user) /\ "SuperAdmin" \notin NamesOf(req.user))
         => ~Allowed

\* The sockets of a user that are registered and not disconnected, in the
\* order the connection handler registered them.
StillRegistered(u) ==
  SelectSeq(registered, LAMBDA c : phase[c] = "connected" /\ sockUser[c]._id = u)

\* C17: each list of the registry holds the user's registered, not yet
\* disconnected sockets in registration order, so its first socket is the
\* earliest-registered one still there; the match decision notifyRoles makes
\* for a user follows the role snapshot of that socket alone.
C17_RepresentativeIsOldest ==
  /\ \A i \in 1..Len(activeConnections) :
       activeConnections[i].value = StillRegistered(activeConnections[i].key)
  /\ obs.op = "notifyRoles" =>
       \A u \in Range(obs.examined) :
         u \in Range(obs.matched)
           <=> NamesOf(sockUser[Head(StillRegistered(u))]) \cap Range(obs.roles) # {}

C17_Witness ==
  \E c, d \in Conns :
    /\ phase[c] = "connected"
    /\ phase[d] = "connected"
    /\ sockUser[c]._id = sockUser[d]._id
    /\ StillRegistered(sockUser[c]._id) = <<c, d>>
    /\ obs.op = "notifyRoles"
    /\ sockUser[c]._id \in Range(obs.examined)
    /\ sockUser[c]._id \notin Range(obs.matched)
    /\ NamesOf(sockUser[d]) \cap Range(obs.roles) # {}

\* A socket without an attached user, or whose attached user has no _id.
Userless(c) == sockUser[c] = Null \/ Missing(sockUser[c], "_id")

\* C18: the connection handler drops a socket that has no user or whose user
\* has no _id: the socket never enters the registry, gets no heartbeat timer
\* and no disconnect handler, and the step that drops it leaves the registry
\* and every timer as they were.
C18_UserlessSocketDropped ==
  [][\A c \in Conns :
       Userless(c) =>
         /\ phase'[c] \in {"decided", "dropped"}
         /\ ~InRegistry(c)'
         /\ ~pingInterval'[c]
         /\ c \notin Range(registered')
         /\ phase'[c] # phase[c] =>
              /\ phase'[c] = "dropped"
              /\ activeConnections' = activeConnections
              /\ pingInterval' = pingInterval]_vars

C18_Witness ==
  \E c, d \in Conns :
    /\ sockUser[c] = Null
    /\ phase[c] = "dropped"
    /\ phase[d] = "connected"
    /\ InRegistry(d)

C20_DisconnectedIsTerminal ==
  [][\A c \in Socks :
       /\ Count(registered', c) <= 1
       /\ phase'[c] = "disconnected" => c \in Range(registered')
       /\ phase[c] = "disconnected" => (phase'[c] = "disconnected" /\ ~InRegistry(c)')
       /\ (obs'.op = "notifyRoles" /\ c \in Range(obs'.attempted))
            => phase'[c] = "connected"]_vars

C20_Witness ==
  \E c, d \in Socks :
    /\ phase[c] = "disconnected"
    /\ phase[d] = "connected"
    /\ sockUser[c]._id = sockUser[d]._id
    /\ obs.op = "notifyRoles"
    /\ obs.attempted = <<d>>

\* C14: at most one Role document has isDefault = true.
C14_AtMostOneDefault ==
  Cardinality({d \in roleDocs : d.isDefault}) <= 1

\* No two Permission documents have the same resource and name.
PairsUnique ==
  \A a, b \in permissionDocs : (a.resource = b.resource /\ a.name = b.name) => a = b

\* C15: no two Permission documents ever have the same (resource, name)
\* pair, and a createPermission or updatePermission request that ends in an
\* error leaves the collection as it was.
C15_PairUnique ==
  [][/\ PairsUnique
     /\ PairsUnique'
     /\ \A r \in Calls :
          (calls[r].pc # "done" /\ calls'[r].pc = "done"
             /\ calls'[r].statusCode \notin {200, 201})
            => permissionDocs' = permissionDocs]_vars

C15_Witness ==
  \E r, q \in Calls :
    /\ calls[r] = DuplicateKey("createPermission")
    /\ calls[q] = Done("createPermission", 201, "Permission created successfully")
    /\ PairsUnique
    /\ Cardinality(permissionDocs) = Cardinality(SeedPermissionDocs) + 1

\* The token an HTTP request presents, and whether protect is through with it.
Presented == ExtractToken(req.authorization, req.cookie)

ProtectDone == req.mw = "protect" /\ ~res.awaiting

\* C21: at the step that accepts a handshake, the user attached to the
\* socket has roles and permissions resolved, and hasRole and hasPermission
\* answer on it as they do on the user protect loads for the same id from
\* the same collection.
C21_SocketPrincipalMatchesProtect ==
  [][\A c \in Conns :
       (phase[c] = "findById" /\ phase'[c] = "decided" /\ sockUser'[c] # Null) =>
         LET s == sockUser'[c]
             h == FindUserWithPermissions(userRoles, userActive, lookup[c])
         IN  /\ PermissionsResolved(s)
             /\ \A name \in RoleNames : hasRole(s, name) = hasRole(h, name)
             /\ \A code \in PermissionCodes :
                  hasPermission(s, code) = hasPermission(h, code)]_vars

\* C22: a handshake is accepted iff its token verifies and names a stored
\* user, whatever that user's isActive flag, and the accepted socket is
\* registered on connection; protect(true) answers a verifying token of a
\* deactivated user with 401 and attaches nothing.
C22_HandshakeIgnoresIsActive ==
  /\ \A c \in Conns :
       /\ phase[c] \notin {"new", "findById"} =>
            ((nextCalls[c] # <<>> /\ Head(nextCalls[c]) = Accept)
               <=> (GoodToken(token[c]) /\ token[c].userId \in Users))
       /\ phase[c] = "connected" => InRegistry(c)
  /\ (/\ ProtectDone
      /\ req.isRequired
      /\ GoodToken(Presented)
      /\ Presented.userId \in Users
      /\ ~userActive[Presented.userId])
       => /\ res.nexts = <<ApiError(401, "User account is deactivated")>>
          /\ res.user = Null

C22_Witness ==
  \E c \in Conns :
    /\ phase[c] = "connected"
    /\ InRegistry(c)
    /\ ~userActive[sockUser[c]._id]
    /\ ProtectDone
    /\ req.isRequired
    /\ Presented = token[c]
    /\ res.nexts = <<ApiError(401, "User account is deactivated")>>

\* C29: protect attaches a user only when a token is presented, verifies,
\* names a stored user and that user is active, and then continues; in every
\* other case protect(true) passes one 401 error and protect(false) continues,
\* both with no user attached; next is called exactly once per request.
C29_ProtectAttachesOnlyVerifiedActive ==
  req.mw = "protect" =>
    IF res.awaiting THEN res.nexts = <<>> /\ res.user = Null
    ELSE LET ok == /\ GoodToken(Presented)
                   /\ Presented.userId \in Users
                   /\ userActive[Presented.userId]
         IN  /\ Len(res.nexts) = 1
             /\ ok => /\ res.user # Null
                       /\ res.user._id = Presented.userId
                       /\ res.nexts[1] = Continue
             /\ ~ok => /\ res.user = Null
                        /\ (req.isRequired => res.nexts[1].statusCode = 401)
                        /\ (~req.isRequired => res.nexts[1] = Continue)

C29_Witness ==
  /\ ProtectDone
  /\ ~req.isRequired
  /\ req.authorization = Bearer(NoToken)
  /\ req.cookie # NoToken
  /\ res.nexts = <<Continue>>
  /\ res.user = Null

\* C23: requirePermission called with no required permission answers 403 to
\* every authenticated principal that is not SuperAdmin, a holder of
\* all:manage included.
C23_EmptyListDenies ==
  (/\ req.mw = "requirePermission"
   /\ res # NoRes
   /\ req.user # Null
   /\ req.required = <<>>
   /\ "SuperAdmin" \notin NamesOf(req.user))
    => res.nexts = <<ApiError(403, "You do not have permission to perform this action")>>

C23_Witness ==
  /\ req.mw = "requirePermission"
  /\ req.required = <<>>
  /\ PermissionsResolved(req.user)
  /\ <<"all", "manage">> \in HeldBy(req.user)
  /\ "SuperAdmin" \notin NamesOf(req.user)
  /\ res.nexts = <<ApiError(403, "You do not have permission to perform this action")>>

\* Whether request r was answered with an error.
Failed(r) == calls[r].pc = "done" /\ calls[r].statusCode >= 400

\* C24: when every role request made so far has ended in an error, the Role
\* collection is as it was before them, and register without a roleId still
\* finds the default role.
C24_FailedRequestChangesNothing ==
  (/\ \A r \in Calls : calls[r] = Idle \/ Failed(r)
   /\ \A r \in Calls : Failed(r) => calls[r].op \in {"createRole", "updateRole"})
    => /\ roleDocs = SeedRoleDocs
       /\ FindDefaultRole(roleDocs) # Null

\* The ids of the stored roles.
RoleIds == {d._id : d \in roleDocs}

\* C25: every role id in a user's roles array is the id of a stored role.
C25_NoUserReferencesDeletedRole ==
  \A u \in DOMAIN userRoles : Range(userRoles[u]) \subseteq RoleIds

\* C26: no user's roles array is empty, and a removeRolesFromUser request
\* answered 'User must have at least one role' writes nothing.
C26_UserKeepsARole ==
  [][/\ \A u \in DOMAIN userRoles : userRoles[u] # <<>>
     /\ \A u \in DOMAIN userRoles' : userRoles'[u] # <<>>
     /\ \A r \in Calls :
          (calls[r] = Idle /\ calls'[r].pc = "done"
             /\ calls'[r].message = "User must have at least one role")
            => userRoles' = userRoles]_vars

\* C27: no two stored applications have the same career and email.
C27_OneApplicationPerCareerEmail ==
  \A a, b \in applicationDocs : (a.career = b.career /\ a.email = b.email) => a = b

\* No request is in progress.
Quiescent == \A r \in Calls : calls[r].pc \in {"idle", "done"}

\* C28: when no request is in progress, each career's applicationsCount is
\* the number of stored applications that reference the career.
C28_CountMatchesApplications ==
  Quiescent =>
    \A c \in DOMAIN careerDocs :
      careerDocs[c].applicationsCount = Cardinality({a \in applicationDocs : a.career = c})

====
